---- MODULE Spec2Model ----
(***************************************************************************)
(* A model of src/puzzle.py: the jelly puzzle's State (lateral move with   *)
(* push propagation, gravity, fusion, attachment reindexing, chunking) and *)
(* the breadth-first solve().                                              *)
(*                                                                         *)
(* Conventions.  Python list positions are 0-based and are kept 0-based in *)
(* every value of the model (movable indices, board cells, parent indices);*)
(* a Python list is a TLA+ sequence, so element i is seq[i+1].  Python's   *)
(* None in an Optional[int] board cell is NoneIdx.  An operation that can  *)
(* raise returns a record whose st field is "ok", "None" (the Python call  *)
(* returned None), "IndexError" or "KeyError".  A Python set of small ints *)
(* is iterated in ascending order, as CPython does for such sets.          *)
(***************************************************************************)
EXTENDS Integers, Sequences, FiniteSets, TLC

\* ------------------------------------------------------------------ bounds
BoardWidth == 5
BoardHeight == 3
MaxMovables == 2

\* --------------------------------------------------------------- primitives
NoneIdx == -1
OutOfRange == -2
RootParent == -1

Jelly == "Jelly"
Block == "Block"
BlockColor == "x"
JellyColors == {"red", "green", "blue", "yellow"}

\* Direction enum, in definition order (iteration order of `for d in Direction`)
Direction == <<"up", "right", "down", "left">>

DirectionValue(d) ==
    CASE d = "up" -> <<0, -1>>
      [] d = "right" -> <<1, 0>>
      [] d = "down" -> <<0, 1>>
      [] d = "left" -> <<-1, 0>>

\* Coord.__add__
CoordAdd(c, d) == <<c[1] + DirectionValue(d)[1], c[2] + DirectionValue(d)[2]>>

\* Python list subscript list[i] on a list of length n: the 0-based position
\* read or written, or OutOfRange when Python raises IndexError
PyIndex(n, i) ==
    IF i >= n \/ i < -n THEN OutOfRange
    ELSE IF i < 0 THEN i + n ELSE i

\* the elements of a set of ints as an ascending sequence
RECURSIVE SetToSeq(_)
SetToSeq(S) ==
    IF S = {} THEN <<>>
    ELSE LET m == CHOOSE x \in S : \A y \in S : x <= y
         IN <<m>> \o SetToSeq(S \ {m})

\* del list[i] for a valid 0-based i
DelAt(q, i) == [k \in 1..(Len(q) - 1) |-> IF k <= i THEN q[k] ELSE q[k + 1]]

\* Movable.__init__, Jelly, Block.__init__
Movable(cls, coords, color, is_anchored) ==
    [cls |-> cls, coords |-> coords, color |-> color, is_anchored |-> is_anchored]

MkJelly(coords, color, is_anchored) == Movable(Jelly, coords, color, is_anchored)

MkBlock(coords) == Movable(Block, coords, BlockColor, FALSE)

\* State._coord_to_index
_coord_to_index(s, coord) == coord[1] + coord[2] * s.width

\* dict.get(key, ()) on the attachment map, as a set
AttachedGet(s, idx) ==
    IF idx \in DOMAIN s.attached_movables THEN s.attached_movables[idx] ELSE {}

\* ------------------------------------------------------------------- chunks
\* the inner `while to_explore` loop of _rebuild_attached_chunks; att[idx] of a
\* key the dict does not hold raises KeyError
RECURSIVE ExploreChunk(_, _, _, _)
ExploreChunk(att, seen, chunk, to_explore) ==
    IF to_explore = <<>> THEN [st |-> "ok", seen |-> seen, chunk |-> chunk]
    ELSE LET idx == Head(to_explore)
             rest == Tail(to_explore)
         IN IF idx \in seen THEN ExploreChunk(att, seen, chunk, rest)
            ELSE IF idx \notin DOMAIN att
                 THEN [st |-> "KeyError", seen |-> seen, chunk |-> chunk]
                 ELSE ExploreChunk(att, seen \cup {idx}, Append(chunk, idx),
                                   rest \o SetToSeq(att[idx]))

\* the outer `for start_movable_idx in range(len(self.movables))` loop
RECURSIVE ChunkLoop(_, _, _, _, _)
ChunkLoop(att, n, start, seen, chunks) ==
    IF start >= n THEN [st |-> "ok", chunks |-> chunks]
    ELSE IF start \in seen THEN ChunkLoop(att, n, start + 1, seen, chunks)
    ELSE LET first == IF start \in DOMAIN att THEN SetToSeq(att[start]) ELSE <<>>
             r == ExploreChunk(att, seen \cup {start}, <<start>>, first)
         IN IF r.st # "ok" THEN [st |-> r.st, chunks |-> chunks]
            ELSE ChunkLoop(att, n, start + 1, r.seen, Append(chunks, r.chunk))

\* State._rebuild_attached_chunks: [st, chunks]
_rebuild_attached_chunks(movables, att) == ChunkLoop(att, Len(movables), 0, {}, <<>>)

\* -------------------------------------------------------------------- board
\* the 0-based movable indices whose coordinate list writes board cell k
WritersOf(movables, width, n, k) ==
    {i \in 0..(Len(movables) - 1) :
        \E j \in 1..Len(movables[i + 1].coords) :
            PyIndex(n, movables[i + 1].coords[j][1] + width * movables[i + 1].coords[j][2]) = k}

MaxOf(S) == CHOOSE x \in S : \A y \in S : y <= x

\* the list _rebuild_board fills: every cell None, then for each movable in
\* index order and each of its coords, cell := idx (the last writer stays)
BoardOf(movables, width, height) ==
    [k \in 1..(width * height) |->
        LET w == WritersOf(movables, width, width * height, k - 1)
        IN IF w = {} THEN NoneIdx ELSE MaxOf(w)]

\* some write of _rebuild_board is outside the list: IndexError
BoardRaises(movables, width, height) ==
    \E i \in 1..Len(movables) : \E j \in 1..Len(movables[i].coords) :
        PyIndex(width * height, movables[i].coords[j][1] + width * movables[i].coords[j][2])
            = OutOfRange

\* _rebuild_board as it would be if it refilled the list the State already
\* holds instead of binding a fresh one (what line 113 rules out)
_rebuild_board_in_place(h, s) ==
    IF BoardRaises(s.movables, s.width, s.height)
    THEN [st |-> "IndexError", h |-> h, s |-> s]
    ELSE [st |-> "ok",
          h |-> [h EXCEPT ![s.movable_idx_board] = BoardOf(s.movables, s.width, s.height)],
          s |-> s]

\* State._rebuild_board on a working state whose movable_idx_board field is a
\* reference into the heap h of board lists: line 113 binds a fresh list, so a
\* list shared with another State is left as it was
_rebuild_board(h, s) ==
    IF BoardRaises(s.movables, s.width, s.height)
    THEN [st |-> "IndexError", h |-> h, s |-> s]
    ELSE [st |-> "ok",
          h |-> Append(h, BoardOf(s.movables, s.width, s.height)),
          s |-> [s EXCEPT !.movable_idx_board = Len(h) + 1]]

\* State.lookup_tile: TRUE/FALSE as 1/0, or OutOfRange (IndexError)
lookup_tile(s, coord) ==
    LET k == PyIndex(s.width * s.height, _coord_to_index(s, coord))
    IN IF k = OutOfRange THEN OutOfRange
       ELSE IF s.tile_board[k + 1] THEN 1 ELSE 0

\* State.lookup_movable: a movable index, NoneIdx, or OutOfRange (IndexError)
lookup_movable(h, s, coord) ==
    LET k == PyIndex(s.width * s.height, _coord_to_index(s, coord))
    IN IF k = OutOfRange THEN OutOfRange ELSE h[s.movable_idx_board][k + 1]

\* ------------------------------------------------------------ construction
EmptyAttached == [k \in {} |-> {}]

\* State.__init__ with in-range tile locations: [st, s], s holding its board
\* list by value
StateInit(movables, tile_locations, width, height, attached_movables) ==
    LET c == _rebuild_attached_chunks(movables, attached_movables)
        s == [movables |-> movables, width |-> width, height |-> height,
              tile_board |-> [k \in 1..(width * height) |->
                                \E t \in tile_locations : t[1] + t[2] * width = k - 1],
              movable_idx_board |-> BoardOf(movables, width, height),
              attached_movables |-> attached_movables,
              attached_chunks |-> c.chunks]
    IN IF c.st # "ok" THEN [st |-> c.st, s |-> s]
       ELSE IF BoardRaises(movables, width, height) THEN [st |-> "IndexError", s |-> s]
       ELSE [st |-> "ok", s |-> s]

\* a State value as a working state: its board list is heap cell 1
Enter(v) == [h |-> <<v.movable_idx_board>>, s |-> [v EXCEPT !.movable_idx_board = 1]]

\* a working state as a State value
Resolve(h, s) == [s EXCEPT !.movable_idx_board = h[s.movable_idx_board]]

\* State.clone: a new State built by __init__ from copies of the movables and a
\* deep copy of the attachment map (so chunks and a board are rebuilt, which can
\* raise), then made to share tile_board and movable_idx_board with self; the
\* board list __init__ built is dropped by line 109, so it is not kept in h
clone(h, s) ==
    LET c == _rebuild_attached_chunks(s.movables, s.attached_movables)
    IN IF c.st # "ok" THEN [st |-> c.st, h |-> h, s |-> s]
       ELSE IF BoardRaises(s.movables, s.width, s.height)
       THEN [st |-> "IndexError", h |-> h, s |-> s]
       ELSE [st |-> "ok", h |-> h, s |-> [s EXCEPT !.attached_chunks = c.chunks]]

\* ------------------------------------------------------------- lateral move
Translate(coords, direction) == [j \in 1..Len(coords) |-> CoordAdd(coords[j], direction)]

RECURSIVE _move_movable_in_direction(_, _, _, _, _)
RECURSIVE PushLoop(_, _, _, _, _, _)
RECURSIVE AttachLoop(_, _, _, _, _, _)

\* lines 153-155: r is what the recursive call on the pushed movable returned
PushCalled(coords, k, state, direction, movables_moved, r) ==
    IF r.st # "ok"
    THEN [st |-> r.st, h |-> r.h, s |-> state, moved |-> movables_moved]
    ELSE PushLoop(coords, k + 1, r.h, r.s, direction, movables_moved)

\* lines 147-152 for one coord: tile and pushed_against_movable_idx are what
\* lookup_tile and lookup_movable returned for new_coord
PushCoord(coords, k, h, state, direction, movables_moved, tile, pushed_against_movable_idx) ==
    IF tile = OutOfRange
    THEN [st |-> "IndexError", h |-> h, s |-> state, moved |-> movables_moved]
    ELSE IF tile = 1
    THEN [st |-> "None", h |-> h, s |-> state, moved |-> movables_moved]
    ELSE IF pushed_against_movable_idx # NoneIdx
            /\ pushed_against_movable_idx \notin movables_moved
    THEN PushCalled(coords, k, state, direction,
                    movables_moved \cup {pushed_against_movable_idx},
                    _move_movable_in_direction(
                        h, state, pushed_against_movable_idx, direction,
                        movables_moved \cup {pushed_against_movable_idx}))
    ELSE PushLoop(coords, k + 1, h, state, direction, movables_moved)

\* `for coord in self.movables[movable_idx].coords` (lines 145-155), from the
\* k-th coord on: [st, h, s, moved]
PushLoop(coords, k, h, state, direction, movables_moved) ==
    IF k > Len(coords)
    THEN [st |-> "ok", h |-> h, s |-> state, moved |-> movables_moved]
    ELSE PushCoord(coords, k, h, state, direction, movables_moved,
                   lookup_tile(state, CoordAdd(coords[k], direction)),
                   lookup_movable(h, state, CoordAdd(coords[k], direction)))

\* lines 159-161: r is what the recursive call on the attached movable returned
AttachCalled(attached, k, state, direction, movables_moved, r) ==
    IF r.st # "ok"
    THEN [st |-> r.st, h |-> r.h, s |-> state, moved |-> movables_moved]
    ELSE AttachLoop(attached, k + 1, r.h, r.s, direction, movables_moved)

\* `for attached_movable_idx in state.attached_movables.get(movable_idx, [])`
\* (lines 156-161), from the k-th attached index on
AttachLoop(attached, k, h, state, direction, movables_moved) ==
    IF k > Len(attached)
    THEN [st |-> "ok", h |-> h, s |-> state, moved |-> movables_moved]
    ELSE IF attached[k] \notin movables_moved
    THEN AttachCalled(attached, k, state, direction, movables_moved \cup {attached[k]},
                      _move_movable_in_direction(h, state, attached[k], direction,
                                                 movables_moved \cup {attached[k]}))
    ELSE AttachLoop(attached, k + 1, h, state, direction, movables_moved)

\* lines 163-165, a being what the attachment loop returned
MoveShift(self, movable_idx, direction, a) ==
    IF a.st # "ok" THEN [st |-> a.st, h |-> a.h, s |-> self]
    ELSE _rebuild_board(a.h,
             [a.s EXCEPT !.movables[movable_idx + 1].coords =
                             Translate(a.s.movables[movable_idx + 1].coords, direction)])

\* lines 156-161, p being what the push loop returned
MoveAttached(self, movable_idx, direction, p) ==
    IF p.st # "ok" THEN [st |-> p.st, h |-> p.h, s |-> self]
    ELSE MoveShift(self, movable_idx, direction,
                   AttachLoop(SetToSeq(AttachedGet(p.s, movable_idx)), 1, p.h, p.s,
                              direction, p.moved))

\* lines 145-155, c being what clone returned
MovePush(self, movable_idx, direction, movables_moved, c) ==
    IF c.st # "ok" THEN c
    ELSE MoveAttached(self, movable_idx, direction,
                      PushLoop(self.movables[movable_idx + 1].coords, 1, c.h, c.s,
                               direction, movables_moved))

\* State._move_movable_in_direction on the working state self: [st, h, s].  The
\* recursive calls get a copy of movables_moved, so what they add to it is not
\* seen by the caller.
_move_movable_in_direction(h, self, movable_idx, direction, movables_moved) ==
    IF PyIndex(Len(self.movables), movable_idx) = OutOfRange
    THEN [st |-> "IndexError", h |-> h, s |-> self]
    ELSE IF self.movables[movable_idx + 1].is_anchored
    THEN [st |-> "None", h |-> h, s |-> self]
    ELSE MovePush(self, movable_idx, direction, movables_moved, clone(h, self))

\* ------------------------------------------------------------------ gravity
\* line 201 for one coord, on_movable being what lookup_movable returned:
\* "yes" (go on), "no" or "IndexError"
CoordCanFall(s, movable_idx, new_coord, on_movable) ==
    IF on_movable = OutOfRange THEN "IndexError"
    ELSE IF lookup_tile(s, new_coord) = 1
            \/ (on_movable # NoneIdx /\ on_movable # movable_idx
                /\ on_movable \notin AttachedGet(s, movable_idx))
    THEN "no"
    ELSE "yes"

\* `for coord in movable.coords` of _gravity (lines 198-204), from the j-th
\* coord on: "yes", "no" or "IndexError"
RECURSIVE CoordsCanFall(_, _, _, _)
RECURSIVE CoordsCanFallNext(_, _, _, _, _)
CoordsCanFallNext(h, s, movable_idx, j, r) ==
    IF r # "yes" THEN r ELSE CoordsCanFall(h, s, movable_idx, j + 1)

CoordsCanFall(h, s, movable_idx, j) ==
    IF j > Len(s.movables[movable_idx + 1].coords) THEN "yes"
    ELSE CoordsCanFallNext(h, s, movable_idx, j,
             CoordCanFall(s, movable_idx,
                 CoordAdd(s.movables[movable_idx + 1].coords[j], "down"),
                 lookup_movable(h, s, CoordAdd(s.movables[movable_idx + 1].coords[j], "down"))))

\* `for movable_idx in chunk` of _gravity (lines 193-206), from the k-th member
RECURSIVE ChunkCanFall(_, _, _, _)
RECURSIVE ChunkCanFallNext(_, _, _, _, _)
ChunkCanFallNext(h, s, chunk, k, r) ==
    IF r # "yes" THEN r ELSE ChunkCanFall(h, s, chunk, k + 1)

ChunkCanFall(h, s, chunk, k) ==
    IF k > Len(chunk) THEN "yes"
    ELSE IF PyIndex(Len(s.movables), chunk[k]) = OutOfRange THEN "IndexError"
    ELSE IF s.movables[chunk[k] + 1].is_anchored THEN "no"
    ELSE ChunkCanFallNext(h, s, chunk, k, CoordsCanFall(h, s, chunk[k], 1))

\* lines 209-211: every member one row down, the board rebuilt after each
RECURSIVE ChunkFall(_, _, _, _)
RECURSIVE ChunkFallNext(_, _, _)
ChunkFallNext(chunk, k, r) ==
    IF r.st # "ok" THEN r ELSE ChunkFall(r.h, r.s, chunk, k + 1)

ChunkFall(h, s, chunk, k) ==
    IF k > Len(chunk) THEN [st |-> "ok", h |-> h, s |-> s]
    ELSE ChunkFallNext(chunk, k,
             _rebuild_board(h,
                 [s EXCEPT !.movables[chunk[k] + 1].coords =
                               Translate(s.movables[chunk[k] + 1].coords, "down")]))

\* one sweep `for chunk in self.attached_chunks`, from the k-th chunk on:
\* [st, h, s, moved]
RECURSIVE GravitySweep(_, _, _, _)
RECURSIVE SweepFallen(_, _)
RECURSIVE SweepChunk(_, _, _, _, _)
\* after lines 209-211, f being what they returned
SweepFallen(k, f) ==
    IF f.st # "ok" THEN [st |-> f.st, h |-> f.h, s |-> f.s, moved |-> TRUE]
    ELSE GravitySweep(f.h, f.s, k + 1, TRUE)

\* lines 207-211 for the k-th chunk, can_fall being what lines 192-206 found
SweepChunk(h, s, k, movable_moved, can_fall) ==
    IF can_fall = "IndexError"
    THEN [st |-> "IndexError", h |-> h, s |-> s, moved |-> movable_moved]
    ELSE IF can_fall = "no" THEN GravitySweep(h, s, k + 1, movable_moved)
    ELSE SweepFallen(k, ChunkFall(h, s, s.attached_chunks[k], 1))

GravitySweep(h, s, k, movable_moved) ==
    IF k > Len(s.attached_chunks)
    THEN [st |-> "ok", h |-> h, s |-> s, moved |-> movable_moved]
    ELSE SweepChunk(h, s, k, movable_moved, ChunkCanFall(h, s, s.attached_chunks[k], 1))

\* line 189 as it would be if _gravity made one sweep and stopped
GravityOneSweep(r) == [st |-> r.st, h |-> r.h, s |-> r.s]

\* State._gravity: sweeps until one moves nothing: [st, h, s]
RECURSIVE _gravity(_, _)
RECURSIVE GravityAgain(_)
\* line 189 after a sweep, r being what the sweep returned
GravityAgain(r) ==
    IF r.st # "ok" THEN [st |-> r.st, h |-> r.h, s |-> r.s]
    ELSE IF r.moved THEN _gravity(r.h, r.s)
    ELSE [st |-> "ok", h |-> r.h, s |-> r.s]

_gravity(h, s) == GravityAgain(GravitySweep(h, s, 1, FALSE))

\* ------------------------------------------------------------------- fusion
\* the dictionary _adjust_attached_after_fusing builds (lines 236-262)
AdjustAttached(att, fused_to_idx, fused_from_idx) ==
    LET new_fused_attached ==
            (IF fused_to_idx \in DOMAIN att THEN att[fused_to_idx] ELSE {})
            \cup (IF fused_from_idx \in DOMAIN att THEN att[fused_from_idx] ELSE {})
        rest == DOMAIN att \ {fused_to_idx, fused_from_idx}
        Shift(a) == IF a > fused_from_idx THEN a - 1 ELSE a
        keys == {Shift(idx) : idx \in rest}
                \cup (IF new_fused_attached # {} THEN {fused_to_idx} ELSE {})
    IN [k \in keys |->
          IF \E idx \in rest : Shift(idx) = k
          THEN LET idx == CHOOSE i \in rest : Shift(i) = k
               IN {IF a = fused_from_idx THEN fused_to_idx ELSE Shift(a) : a \in att[idx]}
          ELSE {Shift(a) : a \in new_fused_attached}]

\* The loops of _fuse_movables run on a record L: the working state (h, s), the
\* object `movable` (m) and pos, the position that object has in s.movables
\* now (movable_idx itself is not updated by a deletion below it; pos is
\* NoneIdx once the object has been deleted from the list), and the log of
\* merges done.
\* lines 227-231: the merge of the movable at neighbor_idx into `movable`
FuseMerge(L, movable_idx, neighbor_idx) ==
    LET nb == L.s.movables[neighbor_idx + 1]
        m2 == [L.m EXCEPT !.coords = L.m.coords \o nb.coords,
                          !.is_anchored = L.m.is_anchored \/ nb.is_anchored]
        movs1 == IF L.pos # NoneIdx THEN [L.s.movables EXCEPT ![L.pos + 1] = m2]
                 ELSE L.s.movables
        movs2 == DelAt(movs1, neighbor_idx)
        pos2 == IF L.pos = neighbor_idx \/ L.pos = NoneIdx THEN NoneIdx
                ELSE IF L.pos > neighbor_idx THEN L.pos - 1 ELSE L.pos
        rb == _rebuild_board(L.h, [L.s EXCEPT !.movables = movs2])
        att2 == AdjustAttached(L.s.attached_movables, movable_idx, neighbor_idx)
        ch == _rebuild_attached_chunks(movs2, att2)
        entry == [to |-> movable_idx, from |-> neighbor_idx, pos |-> L.pos,
                  a |-> L.m, b |-> nb, merged |-> m2,
                  n_before |-> Len(L.s.movables), n_after |-> Len(movs2),
                  att_before |-> L.s.attached_movables, att_after |-> att2]
    IN IF rb.st # "ok" THEN [L EXCEPT !.st = rb.st]
       ELSE [st |-> ch.st, h |-> rb.h,
             s |-> [rb.s EXCEPT !.attached_movables = att2,
                                !.attached_chunks = ch.chunks],
             pos |-> pos2, m |-> m2, log |-> Append(L.log, entry)]

\* lines 220-231 for one direction
FuseStep(L, movable_idx, coord_idx, d) ==
    LET neighbor_idx == lookup_movable(L.h, L.s, CoordAdd(L.m.coords[coord_idx + 1], d))
    IN IF neighbor_idx = OutOfRange THEN [L EXCEPT !.st = "IndexError"]
       ELSE IF neighbor_idx # NoneIdx /\ neighbor_idx # movable_idx /\ L.m.cls = Jelly
               /\ L.s.movables[neighbor_idx + 1].color = L.m.color
       THEN FuseMerge(L, movable_idx, neighbor_idx)
       ELSE L

\* `for direction in Direction` as it would be if only Direction.up were looked at
FuseDirUpOnly(L, movable_idx, coord_idx, di) ==
    IF L.st # "ok" THEN L ELSE FuseStep(L, movable_idx, coord_idx, Direction[1])

\* `for direction in Direction`, from the di-th direction on
RECURSIVE FuseDirLoop(_, _, _, _)
FuseDirLoop(L, movable_idx, coord_idx, di) ==
    IF di > Len(Direction) \/ L.st # "ok" THEN L
    ELSE FuseDirLoop(FuseStep(L, movable_idx, coord_idx, Direction[di]),
                     movable_idx, coord_idx, di + 1)

\* `while coord_idx < len(movable.coords)`
RECURSIVE FuseCoordLoop(_, _, _)
FuseCoordLoop(L, movable_idx, coord_idx) ==
    IF L.st # "ok" \/ coord_idx >= Len(L.m.coords) THEN L
    ELSE FuseCoordLoop(FuseDirLoop(L, movable_idx, coord_idx, 1), movable_idx, coord_idx + 1)

\* `while movable_idx < len(self.movables)`
RECURSIVE FuseMovableLoop(_, _)
FuseMovableLoop(L, movable_idx) ==
    IF L.st # "ok" \/ movable_idx >= Len(L.s.movables) THEN L
    ELSE FuseMovableLoop(
             FuseCoordLoop([L EXCEPT !.pos = movable_idx,
                                     !.m = L.s.movables[movable_idx + 1]],
                           movable_idx, 0),
             movable_idx + 1)

\* State._fuse_movables: [st, h, s, log]
FuseResult(L) == [st |-> L.st, h |-> L.h, s |-> L.s, log |-> L.log]

_fuse_movables(h, s) ==
    FuseResult(FuseMovableLoop([st |-> "ok", h |-> h, s |-> s, pos |-> NoneIdx,
                                m |-> MkBlock(<<>>), log |-> <<>>], 0))

\* --------------------------------------------------------------------- move
\* State.move on the State value v.  st: "ok" (a new State, in s), "None" or the
\* exception raised; recv: v as the caller sees it after the call (its board
\* list read back from the heap); pushed, settled: the working state after the
\* lateral move and after gravity; log: the merges of the fusion pass.
\* move returns None or raises, h being the heap at that point
MoveNone(v, st, h) ==
    [st |-> st, s |-> v, recv |-> Resolve(h, Enter(v).s), pushed |-> v, settled |-> v,
     log |-> <<>>]

\* line 127, r being what _rebuild_board (line 126) returned
MoveRebuilt(v, p, g, f, r) ==
    IF r.st # "ok" THEN MoveNone(v, r.st, r.h)
    ELSE [st |-> "ok", s |-> Resolve(r.h, r.s), recv |-> Resolve(r.h, Enter(v).s),
          pushed |-> Resolve(p.h, p.s), settled |-> Resolve(g.h, g.s), log |-> f.log]

\* line 126, f being what _fuse_movables (line 125) returned
MoveFused(v, p, g, f) ==
    IF f.st # "ok" THEN MoveNone(v, f.st, f.h)
    ELSE MoveRebuilt(v, p, g, f, _rebuild_board(f.h, f.s))

\* line 125, g being what _gravity (line 124) returned
MoveSettled(v, p, g) ==
    IF g.st # "ok" THEN MoveNone(v, g.st, g.h)
    ELSE MoveFused(v, p, g, _fuse_movables(g.h, g.s))

\* lines 122-124, p being what _move_movable_in_direction (line 121) returned
MovePushed(v, p) ==
    IF p.st # "ok" THEN MoveNone(v, p.st, p.h)
    ELSE MoveSettled(v, p, _gravity(p.h, p.s))

move(v, movable_idx, direction) ==
    IF direction \notin {"left", "right"} THEN MoveNone(v, "None", Enter(v).h)
    ELSE MovePushed(v, _move_movable_in_direction(Enter(v).h, Enter(v).s, movable_idx,
                                                  direction, {movable_idx}))

\* the loop of is_win_state as it would be without the class test of line 95
RECURSIVE WinLoopAnyClass(_, _, _)
WinLoopAnyClass(movables, k, colors) ==
    IF k > Len(movables) THEN TRUE
    ELSE IF movables[k].color \in colors THEN FALSE
    ELSE WinLoopAnyClass(movables, k + 1, colors \cup {movables[k].color})

\* State.is_win_state: the loop of lines 94-97 from the k-th movable on
RECURSIVE WinLoop(_, _, _)
WinLoop(movables, k, colors) ==
    IF k > Len(movables) THEN TRUE
    ELSE IF movables[k].cls = Jelly /\ movables[k].color \in colors THEN FALSE
    ELSE WinLoop(movables, k + 1, colors \cup {movables[k].color})

is_win_state(s) == WinLoop(s.movables, 1, {})

\* ------------------------------------------------------------------- solver
\* StateTransition (lines 57-61)
StateTransition(s, movable_idx, direction) ==
    [state |-> s, movable_idx |-> movable_idx, direction |-> direction]

\* State.get_all_state_transitions from movable movable_idx on: [st, ts].  Each
\* call of move is made on self as the call before it left it.
RECURSIVE TransitionsLoop(_, _, _)
RECURSIVE TransitionsRight(_, _, _)
\* lines 136-137, r being what self.move(movable_idx, Direction.right) returned
TransitionsRight(movable_idx, state_transitions, r) ==
    IF r.st \notin {"ok", "None"} THEN [st |-> r.st, ts |-> state_transitions]
    ELSE TransitionsLoop(r.recv, movable_idx + 1,
             IF r.st = "ok"
             THEN Append(state_transitions, StateTransition(r.s, movable_idx, "right"))
             ELSE state_transitions)

\* lines 133-135, l being what self.move(movable_idx, Direction.left) returned
TransitionsLeft(movable_idx, state_transitions, l) ==
    IF l.st \notin {"ok", "None"} THEN [st |-> l.st, ts |-> state_transitions]
    ELSE TransitionsRight(movable_idx,
             IF l.st = "ok"
             THEN Append(state_transitions, StateTransition(l.s, movable_idx, "left"))
             ELSE state_transitions,
             move(l.recv, movable_idx, "right"))

TransitionsLoop(self, movable_idx, state_transitions) ==
    IF movable_idx >= Len(self.movables) THEN [st |-> "ok", ts |-> state_transitions]
    ELSE TransitionsLeft(movable_idx, state_transitions, move(self, movable_idx, "left"))

get_all_state_transitions(self) == TransitionsLoop(self, 0, <<>>)

\* the tuple State.__hash__ hashes: per board cell None or (idx, color)
HashTuple(s) ==
    [k \in 1..Len(s.movable_idx_board) |->
        IF s.movable_idx_board[k] = NoneIdx THEN <<NoneIdx, "None">>
        ELSE <<s.movable_idx_board[k], s.movables[s.movable_idx_board[k] + 1].color>>]

\* State.__eq__
StateEq(s, other) == s.movable_idx_board = other.movable_idx_board

\* `state in seen_states` as it would be if the set went by __eq__ alone
InSeenByEq(s, seen_set) == \E other \in seen_set : StateEq(other, s)

\* `state in seen_states`: a member with the same hash that __eq__ accepts
\* (two different tuples are taken to hash differently)
InSeen(s, seen_set) ==
    \E other \in seen_set : HashTuple(other) = HashTuple(s) /\ StateEq(other, s)

\* lines 365-370: the winning transition and its ancestors, root first
RECURSIVE WinningMoves(_, _, _)
WinningMoves(tree, parent_idx, winning_moves) ==
    IF parent_idx = RootParent THEN winning_moves
    ELSE WinningMoves(tree, tree[parent_idx + 1].parent,
                      <<tree[parent_idx + 1].transition>> \o winning_moves)

\* the `for transition in ...` loops of solve (lines 350-356 with parent
\* RootParent, lines 362-373 with parent state_idx), from the k-th transition on
RECURSIVE ExpandLoop(_, _, _, _, _, _)
ExpandLoop(ts, k, parent, seen_set, tree, frontier) ==
    IF k > Len(ts)
    THEN [found |-> FALSE, path |-> <<>>, seen |-> seen_set, tree |-> tree,
          frontier |-> frontier]
    ELSE IF InSeen(ts[k].state, seen_set)
    THEN ExpandLoop(ts, k + 1, parent, seen_set, tree, frontier)
    ELSE IF is_win_state(ts[k].state)
    THEN [found |-> TRUE, path |-> WinningMoves(tree, parent, <<ts[k]>>),
          seen |-> seen_set, tree |-> tree, frontier |-> frontier]
    ELSE ExpandLoop(ts, k + 1, parent, seen_set \cup {ts[k].state},
                    Append(tree, [parent |-> parent, transition |-> ts[k]]),
                    Append(frontier, ts[k].state))

\* ------------------------------------------------------------------- levels
\* The levels a State is constructed from: a BoardWidth x BoardHeight grid with
\* a tile frame, one-cell movables on distinct free cells above the bottom row,
\* and an attachment map.
Cells == {<<x, y>> : x \in 0..(BoardWidth - 1), y \in 0..(BoardHeight - 1)}

FloorTiles == {c \in Cells : c[2] = BoardHeight - 1}

WallTiles == FloorTiles \cup {c \in Cells : c[1] \in {0, BoardWidth - 1}}

NoTiles == {}

TileFrames == {WallTiles, FloorTiles, NoTiles}

StartCells(tiles) == {c \in Cells \ tiles : c[2] < BoardHeight - 1}

\* what parse_puzzle builds from a definition line (lines 331-337)
RedJelly == <<Jelly, "red", FALSE>>
RedAnchored == <<Jelly, "red", TRUE>>
GreenJelly == <<Jelly, "green", FALSE>>
ABlock == <<Block, BlockColor, FALSE>>

MkMovable(kind, coords) ==
    IF kind[1] = Block THEN MkBlock(coords) ELSE MkJelly(coords, kind[2], kind[3])

\* the attachment maps parse_puzzle builds (lines 327-329) from `@a b` and
\* `@b a` (a mutual pair) or from `@a b` and `@b` (one direction only)
AttachmentMaps(n) ==
    LET pairs == {q \in (0..(n - 1)) \X (0..(n - 1)) : q[1] # q[2]}
    IN {EmptyAttached}
       \cup {(q[1] :> {q[2]}) @@ (q[2] :> {q[1]}) : q \in pairs}
       \cup {(q[1] :> {q[2]}) @@ (q[2] :> {}) : q \in pairs}

Placements(free, n) ==
    {p \in [1..n -> free] : \A i, j \in 1..n : i # j => p[i] # p[j]}

\* the States __init__ constructs without raising
LevelsOf(tiles, n, kinds) ==
    LET built == {StateInit([i \in 1..n |-> MkMovable(k[i], <<p[i]>>)], tiles,
                            BoardWidth, BoardHeight, att) :
                     k \in [1..n -> kinds], p \in Placements(StartCells(tiles), n),
                     att \in AttachmentMaps(n)}
    IN {l.s : l \in {b \in built : b.st = "ok"}}

\* the levels of up to n movables in every tile frame
LevelStates(n) ==
    UNION {LevelsOf(tiles, m, {RedJelly, RedAnchored, ABlock}) :
              tiles \in TileFrames, m \in 1..n}

\* the enclosed levels of n jellies of one color
StackLevels(n) == LevelsOf(WallTiles, n, {RedJelly, RedAnchored})

\* the levels of n blocks on a floor without side walls
RowLevels(n) == LevelsOf(FloorTiles, n, {ABlock})

\* the enclosed levels solve is run on: up to n movables of two colors, and
\* n + 1 red jellies and blocks
SolveLevels(n) ==
    UNION {LevelsOf(WallTiles, m, {RedJelly, RedAnchored, GreenJelly, ABlock}) :
              m \in 1..n}
    \cup LevelsOf(WallTiles, n + 1, {RedJelly, ABlock})

\* ------------------------------------------------------------- exploration
\* how far left of column 0 a coordinate of the explored states may lie
MaxDrift == 2

WithinDrift(s) ==
    \A i \in 1..Len(s.movables) : \A j \in 1..Len(s.movables[i].coords) :
        s.movables[i].coords[j][1] >= -MaxDrift

\* ----------------------------------------------------------- the move graph
\* Exhaustive enumeration of the graph of successful lateral moves, layer by
\* layer from an initial State, as the reference solve() is compared with.
\* States are told apart by all their fields.
MaxDepth == 12

Successors(s) ==
    {r.s : r \in {m \in {move(s, i, d) : i \in 0..(Len(s.movables) - 1),
                                          d \in {"left", "right"}} : m.st = "ok"}}

\* [reachable, dist, exact]: whether a win state is reachable, in how many
\* moves at least, and whether the enumeration was exhaustive (no state beyond
\* MaxDrift or MaxDepth was left out before the answer was found)
RECURSIVE Enumerate(_, _, _, _)
EnumerateLayer(visited, depth, exact, all) ==
    IF \E s \in all \ visited : WithinDrift(s) /\ is_win_state(s)
    THEN [reachable |-> TRUE, dist |-> depth, exact |-> exact]
    ELSE IF \A s \in all \ visited : ~WithinDrift(s)
    THEN [reachable |-> FALSE, dist |-> 0, exact |-> exact /\ all \subseteq visited]
    ELSE IF depth >= MaxDepth
    THEN [reachable |-> FALSE, dist |-> 0, exact |-> FALSE]
    ELSE Enumerate({s \in all \ visited : WithinDrift(s)},
                   visited \cup {s \in all : WithinDrift(s)}, depth + 1,
                   exact /\ \A s \in all : WithinDrift(s))

Enumerate(frontier, visited, depth, exact) ==
    EnumerateLayer(visited, depth, exact, UNION {Successors(s) : s \in frontier})

MoveGraph(initial) ==
    IF is_win_state(initial) THEN [reachable |-> TRUE, dist |-> 0, exact |-> TRUE]
    ELSE Enumerate({initial}, {initial}, 1, TRUE)

\* -------------------------------------------------------------- the player
VARIABLES state, last, pc, puzzle, seen_states, state_transition_tree,
          states_to_explore, state_idx, result, win_movables, win_result,
          member_seen, member_state, member_result

player_vars == <<state, last>>
solver_vars == <<pc, puzzle, seen_states, state_transition_tree, states_to_explore,
                 state_idx, result>>
win_vars == <<win_movables, win_result>>
member_vars == <<member_seen, member_state, member_result>>
vars == <<player_vars, solver_vars, win_vars, member_vars>>

NoState == [movables |-> <<>>]
NoResult == [kind |-> "none", path |-> <<>>]

PlayerIdle == state = NoState /\ last = [op |-> "idle"]

SolverIdle ==
    /\ pc = "idle" /\ puzzle = NoState /\ seen_states = {}
    /\ state_transition_tree = <<>> /\ states_to_explore = <<>>
    /\ state_idx = 0 /\ result = NoResult

WinIdle == win_movables = <<>> /\ win_result = [done |-> FALSE, value |-> FALSE]

MemberIdle ==
    /\ member_seen = {} /\ member_state = NoState
    /\ member_result = [done |-> FALSE, value |-> FALSE]

PlayerStart(levels) ==
    /\ state \in levels
    /\ last = [op |-> "init", st |-> "ok", recv_unchanged |-> TRUE]

Init == PlayerStart(LevelStates(MaxMovables)) /\ SolverIdle /\ WinIdle /\ MemberIdle

\* the driver's move(state, movable_idx, direction) (lines 305-310): the state
\* is replaced when State.move returns a new one (r is what it returned)
MoveReturned(r) ==
    /\ r.st = "ok" => WithinDrift(r.s)
    /\ state' = IF r.st = "ok" THEN r.s ELSE state
    /\ last' = [op |-> "move", st |-> r.st, recv_unchanged |-> (r.recv = state)]
    /\ UNCHANGED <<solver_vars, win_vars, member_vars>>

Move(movable_idx, direction) == MoveReturned(move(state, movable_idx, direction))

Next ==
    \E movable_idx \in 0..(Len(state.movables) - 1) :
        \E d \in 1..Len(Direction) : Move(movable_idx, Direction[d])

Spec == Init /\ [][Next]_vars

\* the player on the enclosed levels of MaxMovables + 1 jellies
InitStack ==
    PlayerStart(StackLevels(MaxMovables + 1)) /\ SolverIdle /\ WinIdle /\ MemberIdle

StackSpec == InitStack /\ [][Next]_vars

\* the player on the floor-only levels of MaxMovables + 1 blocks
InitRow ==
    PlayerStart(RowLevels(MaxMovables + 1)) /\ SolverIdle /\ WinIdle /\ MemberIdle

RowSpec == InitRow /\ [][Next]_vars

\* ------------------------------------------------------------------- solve()
SolveInit ==
    /\ puzzle \in SolveLevels(MaxMovables)
    /\ pc = "start" /\ seen_states = {} /\ state_transition_tree = <<>>
    /\ states_to_explore = <<>> /\ state_idx = 0 /\ result = NoResult
    /\ PlayerIdle /\ WinIdle /\ MemberIdle

Return(kind, path) ==
    /\ pc' = "done"
    /\ result' = [kind |-> kind, path |-> path]

\* lines 344-345
ReturnPuzzle ==
    /\ pc = "start" /\ is_win_state(puzzle)
    /\ Return("path", <<puzzle>>)
    /\ UNCHANGED <<puzzle, seen_states, state_transition_tree, states_to_explore,
                   state_idx, player_vars, win_vars, member_vars>>

\* the for loop of lines 350-356 is over, e being what it came to
RootExpanded(e) ==
    /\ IF e.found THEN Return("path", e.path)
       ELSE pc' = "loop" /\ UNCHANGED result
    /\ seen_states' = e.seen
    /\ state_transition_tree' = e.tree
    /\ states_to_explore' = e.frontier

\* lines 346-358, t being what puzzle.get_all_state_transitions() returned
RootTransitions(t) ==
    IF t.st # "ok"
    THEN /\ Return(t.st, <<>>)
         /\ seen_states' = {puzzle}
         /\ UNCHANGED <<state_transition_tree, states_to_explore>>
    ELSE RootExpanded(ExpandLoop(t.ts, 1, RootParent, {puzzle}, <<>>, <<>>))

ExpandRoot ==
    /\ pc = "start" /\ ~is_win_state(puzzle)
    /\ RootTransitions(get_all_state_transitions(puzzle))
    /\ UNCHANGED <<puzzle, state_idx, player_vars, win_vars, member_vars>>

\* the end of an iteration as it would be without line 374 (state_idx += 1)
ExploredSameIdx(e) ==
    /\ IF e.found THEN Return("path", e.path) ELSE UNCHANGED <<pc, result>>
    /\ UNCHANGED state_idx
    /\ seen_states' = e.seen
    /\ state_transition_tree' = e.tree
    /\ states_to_explore' = e.frontier

\* the for loop of lines 362-373 is over, e being what it came to
Explored(e) ==
    /\ IF e.found
       THEN Return("path", e.path) /\ UNCHANGED state_idx
       ELSE /\ state_idx' = state_idx + 1
            /\ UNCHANGED <<pc, result>>
    /\ seen_states' = e.seen
    /\ state_transition_tree' = e.tree
    /\ states_to_explore' = e.frontier

\* lines 361-374, t being what state.get_all_state_transitions() returned
ExploreTransitions(t) ==
    IF t.st # "ok"
    THEN /\ Return(t.st, <<>>)
         /\ states_to_explore' = Tail(states_to_explore)
         /\ UNCHANGED <<seen_states, state_transition_tree, state_idx>>
    ELSE Explored(ExpandLoop(t.ts, 1, state_idx, seen_states, state_transition_tree,
                             Tail(states_to_explore)))

\* one iteration of the while loop, lines 359-374
Explore ==
    /\ pc = "loop" /\ Len(states_to_explore) > 0
    /\ ExploreTransitions(get_all_state_transitions(Head(states_to_explore)))
    /\ UNCHANGED <<puzzle, player_vars, win_vars, member_vars>>

\* line 375
RaiseUnsolvable ==
    /\ pc = "loop" /\ Len(states_to_explore) = 0
    /\ Return("Unsolvable", <<>>)
    /\ UNCHANGED <<puzzle, seen_states, state_transition_tree, states_to_explore,
                   state_idx, player_vars, win_vars, member_vars>>

SolveNext == ReturnPuzzle \/ ExpandRoot \/ Explore \/ RaiseUnsolvable

SolveSpec == SolveInit /\ [][SolveNext]_vars

\* ------------------------------------------------------------ is_win_state()
\* movable lists of up to MaxWinLen movables; is_win_state reads only class and color
MaxWinLen == 4

WinKinds == {RedJelly, RedAnchored, GreenJelly, ABlock}

WinInputs ==
    UNION {{[i \in 1..n |-> MkMovable(k[i], <<<<i - 1, 0>>>>)] : k \in [1..n -> WinKinds]} :
              n \in 0..MaxWinLen}

WinInit ==
    /\ win_movables \in WinInputs /\ win_result = [done |-> FALSE, value |-> FALSE]
    /\ PlayerIdle /\ SolverIdle /\ MemberIdle

WinCall ==
    /\ ~win_result.done
    /\ win_result' = [done |-> TRUE, value |-> is_win_state([movables |-> win_movables])]
    /\ UNCHANGED <<win_movables, player_vars, solver_vars, member_vars>>

WinNext == WinCall

WinSpec == WinInit /\ [][WinNext]_vars

\* ------------------------------------------------------- `state in seen_states`
\* the membership test of lines 351 and 363 on a set holding one State: both
\* States are enclosed levels of MaxMovables jellies resting on the floor,
\* without attachments
RestingCells == {c \in StartCells(WallTiles) : c[2] = BoardHeight - 2}

MemberStates(n) ==
    {l.s : l \in {StateInit([i \in 1..n |-> MkMovable(k[i], <<p[i]>>)], WallTiles,
                            BoardWidth, BoardHeight, EmptyAttached) :
                     k \in [1..n -> {RedJelly, GreenJelly}],
                     p \in Placements(RestingCells, n)}}

MemberInit ==
    /\ member_state \in MemberStates(MaxMovables)
    /\ \E other \in MemberStates(MaxMovables) : member_seen = {other}
    /\ member_result = [done |-> FALSE, value |-> FALSE]
    /\ PlayerIdle /\ SolverIdle /\ WinIdle

MemberTest ==
    /\ ~member_result.done
    /\ member_result' = [done |-> TRUE, value |-> InSeen(member_state, member_seen)]
    /\ UNCHANGED <<member_seen, member_state, player_vars, solver_vars, win_vars>>

MemberNext == MemberTest

MemberSpec == MemberInit /\ [][MemberNext]_vars

\* -------------------------------------------------------------------- claims
\* C1: for an initial state that is not a win state and from which a win state
\* is reachable by lateral moves, solve returns a list of transitions whose
\* length is the minimum number of moves to a win state (the minimum being
\* taken from the exhaustive enumeration of the move graph).
MinimalPathFor(g) ==
    (~is_win_state(puzzle) /\ g.exact /\ g.reachable)
        => (result.kind = "path" /\ Len(result.path) = g.dist)

C1_MinimalPath == pc = "done" => MinimalPathFor(MoveGraph(puzzle))

\* C2: every path solve returns replays from the initial state: the i-th
\* element is a transition whose move, applied to the state reached so far,
\* succeeds and gives the transition's recorded state, and the last recorded
\* state is a win state.
IsTransition(x) == DOMAIN x = {"state", "movable_idx", "direction"}

RECURSIVE Replays(_, _, _)
ReplayStep(path, i, r) == r.st = "ok" /\ r.s = path[i].state /\ Replays(r.s, path, i + 1)

Replays(s, path, i) ==
    IF i > Len(path) THEN TRUE
    ELSE /\ IsTransition(path[i])
         /\ ReplayStep(path, i, move(s, path[i].movable_idx, path[i].direction))

C2_ValidReplay ==
    (pc = "done" /\ result.kind = "path") =>
        /\ Replays(puzzle, result.path, 1)
        /\ Len(result.path) > 0 => is_win_state(result.path[Len(result.path)].state)

\* C3: solve ends with the Unsolvable outcome exactly when no win state is
\* reachable from the initial state by successful lateral moves, and returns
\* a path only when one exists.
UnsolvableIffFor(g) ==
    g.exact => /\ (result.kind = "Unsolvable") <=> ~g.reachable
               /\ result.kind = "path" => g.reachable

C3_UnsolvableIff == pc = "done" => UnsolvableIffFor(MoveGraph(puzzle))

\* C4: solve terminates either by returning a path or by reporting
\* Unsolvable: once it has ended, its outcome is one of the two.
C4_EndsWithPathOrUnsolvable == pc = "done" => result.kind \in {"path", "Unsolvable"}

\* C5: in the initial state and in every state reached by successful moves, no
\* coordinate is occupied by two movables, no movable lists a coordinate
\* twice, and no movable coordinate is a tile cell.
\* the positions <<i, j>> of the coordinate lists: j-th coord of the i-th movable
Occupied(s) ==
    UNION {{<<i, j>> : j \in 1..Len(s.movables[i].coords)} : i \in 1..Len(s.movables)}

IsTileCell(s, c) ==
    /\ c[1] \in 0..(s.width - 1) /\ c[2] \in 0..(s.height - 1)
    /\ s.tile_board[c[1] + c[2] * s.width + 1]

NoOverlap(s) ==
    /\ \A a, b \in Occupied(s) :
          a # b => s.movables[a[1]].coords[a[2]] # s.movables[b[1]].coords[b[2]]
    /\ \A a \in Occupied(s) : ~IsTileCell(s, s.movables[a[1]].coords[a[2]])

C5_NoOverlap == NoOverlap(state)

\* C6: State.move leaves the state it is called on as it was (movables,
\* attachment map, chunks, tile board, movable-index board), whether it
\* returns a new state, returns None or raises.
C6_ReceiverUnchanged == last.op = "move" => last.recv_unchanged

\* C6 witness: a move returned a new state and the receiver is as before
C6_Witness == last.op = "move" /\ last.st = "ok" /\ last.recv_unchanged

\* C7: across successful moves every cell occupied by an anchored movable
\* stays occupied by an anchored movable.
AnchoredCells(s) ==
    UNION {{s.movables[i].coords[j] : j \in 1..Len(s.movables[i].coords)} :
              i \in {k \in 1..Len(s.movables) : s.movables[k].is_anchored}}

C7_AnchoredStay == [][AnchoredCells(state) \subseteq AnchoredCells(state')]_vars

\* C8: is_win_state is true exactly when no two distinct Jelly movables have
\* the same color, whatever Blocks the list holds and wherever they are.
NoTwoJelliesShareColor(movables) ==
    \A i, j \in 1..Len(movables) :
        (i # j /\ movables[i].cls = Jelly /\ movables[j].cls = Jelly)
            => movables[i].color # movables[j].color

C8_WinIffDistinctJellyColors ==
    win_result.done => (win_result.value <=> NoTwoJelliesShareColor(win_movables))

\* C8 witness: is_win_state returned true for a list with a Jelly between two
\* Blocks
C8_Witness ==
    /\ win_result.done /\ win_result.value
    /\ \E i, j, k \in 1..Len(win_movables) :
          /\ i < j /\ j < k
          /\ win_movables[i].cls = Block /\ win_movables[j].cls = Jelly
          /\ win_movables[k].cls = Block

\* C9: when the initial state is a win state, solve expands no state and
\* returns the empty list of transitions.
C9_WinInitialReturnsEmpty ==
    (pc = "done" /\ is_win_state(puzzle)) =>
        (result.kind = "path" /\ result.path = <<>> /\ seen_states = {})

\* C10: no move raises IndexError, and every movable coordinate of every
\* reachable state is inside the grid.
InGrid(s) ==
    \A i \in 1..Len(s.movables) : \A j \in 1..Len(s.movables[i].coords) :
        /\ s.movables[i].coords[j][1] \in 0..(s.width - 1)
        /\ s.movables[i].coords[j][2] \in 0..(s.height - 1)

C10_GridEdgeBlocks == last.st # "IndexError" /\ InGrid(state)

\* C11: the seen-set takes a State to be a member only if it holds a State
\* with the same cell-to-index layout and the same color at every occupied
\* cell; a State with the same layout but another color at some index is not
\* taken to be the one in the set.
SameLayoutAndColors(s, other) ==
    /\ s.movable_idx_board = other.movable_idx_board
    /\ \A k \in 1..Len(s.movable_idx_board) :
          s.movable_idx_board[k] # NoneIdx =>
              s.movables[s.movable_idx_board[k] + 1].color
                  = other.movables[s.movable_idx_board[k] + 1].color

C11_SeenByLayoutAndColor ==
    (member_result.done /\ member_result.value) =>
        \E other \in member_seen : SameLayoutAndColors(other, member_state)

\* C11 witness: the State tested has the layout of the State in the set and
\* another color at some index, and the test said it is not in the set
C11_Witness ==
    /\ member_result.done /\ ~member_result.value
    /\ \E other \in member_seen :
          /\ other.movable_idx_board = member_state.movable_idx_board
          /\ ~SameLayoutAndColors(other, member_state)

\* C12: in every successful lateral move, before gravity is applied, each
\* movable has been translated by zero cells or by exactly one cell in the
\* move direction, and every movable in the chunk of the moved movable has
\* been translated by exactly one cell.
\* what _move_movable_in_direction returns for move(movable_idx, direction)
PushedBy(s, movable_idx, direction) ==
    _move_movable_in_direction(Enter(s).h, Enter(s).s, movable_idx, direction,
                               {movable_idx})

SameChunk(s, i, j) ==
    \E c \in 1..Len(s.attached_chunks) :
        /\ \E a \in 1..Len(s.attached_chunks[c]) : s.attached_chunks[c][a] = i
        /\ \E b \in 1..Len(s.attached_chunks[c]) : s.attached_chunks[c][b] = j

RigidPush(s, p, movable_idx, direction) ==
    /\ Len(p.movables) = Len(s.movables)
    /\ \A k \in 1..Len(s.movables) :
          /\ \/ p.movables[k].coords = s.movables[k].coords
             \/ p.movables[k].coords = Translate(s.movables[k].coords, direction)
          /\ SameChunk(s, movable_idx, k - 1) =>
                p.movables[k].coords = Translate(s.movables[k].coords, direction)

RigidPushFrom(s, movable_idx, direction, p) ==
    p.st = "ok" => RigidPush(s, p.s, movable_idx, direction)

C12_RigidPush ==
    \A movable_idx \in 0..(Len(state.movables) - 1) : \A direction \in {"left", "right"} :
        RigidPushFrom(state, movable_idx, direction,
                      PushedBy(state, movable_idx, direction))

\* C13: in every state returned by a successful move, no two distinct Jelly
\* movables of the same color occupy orthogonally adjacent cells.
Adjacent(c1, c2) == \E d \in 1..Len(Direction) : CoordAdd(c1, Direction[d]) = c2

Touching(m1, m2) ==
    \E a \in 1..Len(m1.coords) : \E b \in 1..Len(m2.coords) :
        Adjacent(m1.coords[a], m2.coords[b])

FusionComplete(s) ==
    \A i, j \in 1..Len(s.movables) :
        (i # j /\ s.movables[i].cls = Jelly /\ s.movables[j].cls = Jelly
         /\ s.movables[i].color = s.movables[j].color)
            => ~Touching(s.movables[i], s.movables[j])

GravityTwice(g) == IF g.st = "ok" THEN _gravity(g.h, g.s) ELSE g

GravityFixpoint(g, g2) ==
    g.st = "ok" =>
        /\ g2.st = "ok"
        /\ Resolve(g2.h, g2.s).movables = Resolve(g.h, g.s).movables
        /\ Resolve(g2.h, g2.s).movable_idx_board = Resolve(g.h, g.s).movable_idx_board

IdempotentOn(h, s) == GravityFixpoint(_gravity(h, s), GravityTwice(_gravity(h, s)))

IdempotentAfterPush(p) == p.st = "ok" => IdempotentOn(p.h, p.s)

C17_GravityIdempotent ==
    /\ IdempotentOn(Enter(state).h, Enter(state).s)
    /\ \A movable_idx \in 0..(Len(state.movables) - 1) :
          \A direction \in {"left", "right"} :
              IdempotentAfterPush(PushedBy(state, movable_idx, direction))

\* C17 witness: a move has been made from a state that _gravity changes (some
\* chunk falls), so the second run had a first run that moved something
GravityMoves(h, s) ==
    /\ _gravity(h, s).st = "ok"
    /\ Resolve(_gravity(h, s).h, _gravity(h, s).s).movables # s.movables

C17_Witness ==
    /\ last.op = "move" /\ last.st = "ok"
    /\ \E movable_idx \in 0..(Len(state.movables) - 1) :
          \E direction \in {"left", "right"} :
              /\ PushedBy(state, movable_idx, direction).st = "ok"
              /\ GravityMoves(PushedBy(state, movable_idx, direction).h,
                              PushedBy(state, movable_idx, direction).s)

\* C18: every state returned by a successful move is settled under gravity:
\* _gravity applied to it completes and changes nothing.
Settled(s, g) ==
    /\ g.st = "ok"
    /\ Resolve(g.h, g.s).movables = s.movables
    /\ Resolve(g.h, g.s).movable_idx_board = s.movable_idx_board

C18_ReturnedStateSettled ==
    (last.op = "move" /\ last.st = "ok") =>
        Settled(state, _gravity(Enter(state).h, Enter(state).s))

\* C14: every merge _fuse_movables performs joins two distinct movables that
\* are both Jellies of the same color on orthogonally adjacent cells; the
\* survivor has the coordinates of both, its anchored flag is the OR of
\* theirs, and the movable list is shorter by exactly one.
\* what _fuse_movables returns in move(movable_idx, direction), g being what
\* _gravity returned
FusedAfterGravity(g) ==
    IF g.st # "ok" THEN [st |-> g.st, h |-> g.h, s |-> g.s, log |-> <<>>]
    ELSE _fuse_movables(g.h, g.s)

FusedAfterPush(p) ==
    IF p.st # "ok" THEN [st |-> p.st, h |-> p.h, s |-> p.s, log |-> <<>>]
    ELSE FusedAfterGravity(_gravity(p.h, p.s))

FusedBy(s, movable_idx, direction) == FusedAfterPush(PushedBy(s, movable_idx, direction))

\* one entry of the merge log: `a` absorbed `b`
SoundMerge(e) ==
    /\ e.pos # NoneIdx /\ e.pos # e.from
    /\ e.a.cls = Jelly /\ e.b.cls = Jelly /\ e.a.color = e.b.color
    /\ Touching(e.a, e.b)
    /\ Len(e.merged.coords) = Len(e.a.coords) + Len(e.b.coords)
    /\ e.merged.is_anchored = (e.a.is_anchored \/ e.b.is_anchored)
    /\ e.n_after = e.n_before - 1

SoundLog(log) == \A k \in 1..Len(log) : SoundMerge(log[k])

C14_FusionSound ==
    \A movable_idx \in 0..(Len(state.movables) - 1) : \A direction \in {"left", "right"} :
        SoundLog(FusedBy(state, movable_idx, direction).log)

\* C15: after each merge that deletes the movable at index r and keeps the
\* survivor at index s, every key and value of the attachment map is an index
\* of the shortened movable list, and the map holds exactly the edges it held
\* before, renumbered: indices above r one lower, r replaced by s, and no
\* edge from the survivor to itself.
Edges(att) == UNION {{<<k, a>> : a \in att[k]} : k \in DOMAIN att}

\* the index a movable at index i before the merge has after it
Renumbered(e, i) ==
    LET survivor == IF e.to > e.from THEN e.to - 1 ELSE e.to
    IN IF i = e.from THEN survivor ELSE IF i > e.from THEN i - 1 ELSE i

ReindexedMerge(e) ==
    /\ \A k \in DOMAIN e.att_after :
          k \in 0..(e.n_after - 1) /\ e.att_after[k] \subseteq 0..(e.n_after - 1)
    /\ Edges(e.att_after) =
          {q \in {<<Renumbered(e, p[1]), Renumbered(e, p[2])>> : p \in Edges(e.att_before)} :
              q[1] # q[2]}

ReindexedLog(log) == \A k \in 1..Len(log) : ReindexedMerge(log[k])

C15_AttachmentsReindexed ==
    \A movable_idx \in 0..(Len(state.movables) - 1) : \A direction \in {"left", "right"} :
        ReindexedLog(FusedBy(state, movable_idx, direction).log)

\* C16: _rebuild_attached_chunks never raises, and the chunks it leaves are
\* the connected components of the attachment graph taken as undirected:
\* every movable index is in exactly one chunk, and two indices share a chunk
\* exactly when a path of attachment edges, in either direction, links them.
\* S and the indices one attachment edge away from it, in either direction
Linked(att, n, S) ==
    S \cup {j \in 0..(n - 1) : \E i \in S : <<i, j>> \in Edges(att) \/ <<j, i>> \in Edges(att)}

RECURSIVE Component(_, _, _)
Component(att, n, S) ==
    IF Linked(att, n, S) = S THEN S ELSE Component(att, n, Linked(att, n, S))

\* the positions <<c, a>> of the chunk lists holding index i
ChunkPositions(s, i) ==
    {q \in UNION {{<<c, a>> : a \in 1..Len(s.attached_chunks[c])} :
                     c \in 1..Len(s.attached_chunks)} :
        s.attached_chunks[q[1]][q[2]] = i}

ChunksAreComponents(s) ==
    /\ \A i \in 0..(Len(s.movables) - 1) : Cardinality(ChunkPositions(s, i)) = 1
    /\ \A i, j \in 0..(Len(s.movables) - 1) :
          SameChunk(s, i, j) <=> j \in Component(s.attached_movables, Len(s.movables), {i})

C16_ChunksAreComponents == last.st # "KeyError" /\ ChunksAreComponents(state)

\* C19: at the head of every iteration of the search loop the frontier holds
\* exactly the resulting states of the entries of the parent-pointer array at
\* positions state_idx and above, in the same order (so the state popped is
\* that of entry state_idx), and every entry's parent index is the root
\* sentinel or smaller than the entry's own position.
FrontierAligned ==
    /\ Len(states_to_explore) = Len(state_transition_tree) - state_idx
    /\ \A k \in 1..Len(states_to_explore) :
          states_to_explore[k] = state_transition_tree[state_idx + k].transition.state

ParentsBelow ==
    \A k \in 1..Len(state_transition_tree) :
        \/ state_transition_tree[k].parent = RootParent
        \/ /\ state_transition_tree[k].parent >= 0
           /\ state_transition_tree[k].parent < k - 1

C19_BookkeepingAligned == pc = "loop" => (FrontierAligned /\ ParentsBelow)

\* C19 witness: the loop is at the head of a later iteration, with states
\* still to explore and an entry whose parent is not the root
C19_Witness ==
    /\ pc = "loop" /\ state_idx >= 2 /\ Len(states_to_explore) >= 1
    /\ \E k \in 1..Len(state_transition_tree) :
          state_transition_tree[k].parent # RootParent

====
